---------------------------- MODULE Spec2Model ----------------------------
(***************************************************************************)
(* Fast IPC handler for FreeRTOS (IPCHandler.c / IPCHandler.h).            *)
(*                                                                         *)
(* The handler table (IPC_arHandler, IPC_u8HandlerCnt), the three API      *)
(* calls IPC_createHandler, IPC_send and IPC_receive and the lookup        *)
(* IPC_getHandlerIdx are translated statement by statement.  Spec runs the *)
(* calls one after the other (each call is one step) with the two task IDs *)
(* and handles of main(); SpecReg does the same with every task ID and     *)
(* handle, SpecNeg with negative sizes, SpecRT with a sender that reuses   *)
(* its buffer; SpecMP runs two IPC_send calls of two tasks interleaved at  *)
(* the level of the single reads and writes of the queue fields, SpecSR    *)
(* the sends of one task with the receives of the owner, and SpecLive the  *)
(* sends of one task with the loop of demo_task1 under fair scheduling.    *)
(***************************************************************************)
EXTENDS Integers, Sequences, FiniteSets, TLC

(***************************************************************************)
(* Sizes.  The source sets IPC_MAX_DATA_LENGTH = 512 (IPCHandler.h:48),    *)
(* IPC_MSG_QUEUE_LENGTH = 16 (IPCHandler.h:49) and IPC_HANDLER_CNT_MAX =   *)
(* E_IPC_TASK_ID_LAST = UINT8_MAX (IPCHandler.c:44, IPCHandler.h:73); the  *)
(* model keeps the names and the code's arithmetic on them and scales the  *)
(* values down.  MaxSent bounds the number of messages written into the    *)
(* queues in one behaviour of Spec.                                        *)
(***************************************************************************)
IPC_MAX_DATA_LENGTH == 2

IPC_MSG_QUEUE_LENGTH == 3

IPC_HANDLER_CNT_MAX == 2

MaxSent == 4

\* the number of messages written into the queue in one behaviour of SpecRT
MaxRounds == 2

\* uint8_t and uint32_t arithmetic
U8 == 2 ^ 8

ToU8(x) == x % U8

\* A uint32_t is kept as its two 16-bit halves (TLC's integers are 32 bits
\* wide and signed): ToU32(-1) is [hi |-> 65535, lo |-> 65535], 0xFFFFFFFF.
U16 == 2 ^ 16

ToU32(x) == [hi |-> (x \div U16) % U16, lo |-> x % U16]

\* IPC_eError_t
E_IPC_SUCCESS == 0

E_IPC_ERR_EXISTS == 1

E_IPC_ERR_CREATE_FAIL == 2

E_IPC_ERR_NO_HANDLER == 3

E_IPC_ERR_SEND_FAIL == 4

E_IPC_ERR_RECV_FAIL == 5

E_IPC_RECV_MORE == 6

\* IPC_eMsgType_t: E_IPC_MSG_TYPE_1 = 0, E_IPC_MSG_TYPE_2 = 1
MsgTypes == {0, 1}

\* IPC_eTaskID_t: the values up to E_IPC_TASK_ID_LAST
TaskIDs == 0 .. IPC_HANDLER_CNT_MAX

\* E_IPC_TASK_ID_1 and E_IPC_TASK_ID_2, the task IDs of the application
AppIDs == {1, 2}

\* TaskHandle_t: NULL and the handles of two tasks
NULL == 0

Handles == {1, 2}

\* the IPC_createHandler calls of main(): (E_IPC_TASK_ID_1, handle_task1) and
\* (E_IPC_TASK_ID_2, handle_task2)
AppCreates == {<<1, 1>>, <<2, 2>>}

\* last.notified when xTaskNotifyGive was not called
NoHandle == -1

\* What the senders pass as aType and apData: type 1 with a buffer of 1s, type 2
\* with a buffer of 2s
\* (the static storage of the module is filled with 0s).
DataIdx == 0 .. (IPC_MAX_DATA_LENGTH - 1)

Messages == { [aType |-> 0, apData |-> [i \in DataIdx |-> 1]],
              [aType |-> 1, apData |-> [i \in DataIdx |-> 2]] }

\* The values of aDataSize the callers of Spec use: the largest size IPC_send
\* takes, the smallest it refuses, and one above
DataSizes == {IPC_MAX_DATA_LENGTH - 1, IPC_MAX_DATA_LENGTH, IPC_MAX_DATA_LENGTH + 1}

HandlerIdx == 0 .. (IPC_HANDLER_CNT_MAX - 1)

SlotIdx == 0 .. (IPC_MSG_QUEUE_LENGTH - 1)

VARIABLES
    IPC_arHandler,      \* the handler table: recvId, handle, queue
    IPC_u8HandlerCnt,   \* count of initialized handlers
    apBuf,              \* the receiver's message buffer (IPC_receive's apBuf)
    strayWrites,        \* IPC_send wrote behind the end of IPC_arHandler
    accepted,           \* history: per handler, the messages IPC_send stored
    delivered,          \* history: per handler, the messages IPC_receive copied out
    last,               \* the last API call: its arguments and what it returned
    tasks               \* SpecMP: the two sending tasks (position, locals)

vars == <<IPC_arHandler, IPC_u8HandlerCnt, apBuf, strayWrites, accepted, delivered, last, tasks>>

\* IPC_sMsg_t in zero-initialized static storage
ZeroMsg == [eIPC_MsgType |-> 0, u8Data |-> [i \in DataIdx |-> 0], u32DataLen |-> ToU32(0)]

\* IPC_sMsgQueue_t in zero-initialized static storage
ZeroQueue == [msgQueue |-> [s \in SlotIdx |-> ZeroMsg], queueTail |-> 0, queueHead |-> 0, queueSize |-> 0]

\* IPC_sHandler_t in zero-initialized static storage
ZeroHandler == [recvId |-> 0, handle |-> NULL, queue |-> ZeroQueue]

\* aType and apData of a call that is no IPC_send
NoMsg == [aType |-> 0, apData |-> [i \in DataIdx |-> 0]]

\* last: op the call, id its task ID, aHandle its handle argument, msg / len
\* its aType, apData and aDataSize arguments, ret the status returned, idx the
\* handler index it worked on (-1: none), notified the handle passed to
\* xTaskNotifyGive, given what xTaskNotifyGive returned
Call(op, id, aHandle, msg, len, ret, idx, notified, given) ==
    [op |-> op, id |-> id, aHandle |-> aHandle, msg |-> msg, len |-> len, ret |-> ret, idx |-> idx,
     notified |-> notified, given |-> given]

NoCall == Call("none", 0, NULL, NoMsg, 0, E_IPC_SUCCESS, -1, NoHandle, "none")

Producers == {"A", "B"}

\* a task that has not called IPC_send yet: its arguments and locals
IdleTask == [pc |-> "idle", aType |-> 0, apData |-> [i \in DataIdx |-> 0], aDataSize |-> 0,
             handlerIdx |-> 0, idx |-> 0, i |-> 0, tmp |-> 0, ret |-> E_IPC_SUCCESS]

\* IPC_initIPCHandler on the zero-initialized statics
IPC_initIPCHandler ==
    /\ IPC_arHandler = [h \in HandlerIdx |-> ZeroHandler]
    /\ IPC_u8HandlerCnt = 0

Init ==
    /\ IPC_initIPCHandler
    /\ apBuf = ZeroMsg
    /\ strayWrites = FALSE
    /\ accepted = [h \in HandlerIdx |-> <<>>]
    /\ delivered = [h \in HandlerIdx |-> <<>>]
    /\ last = NoCall
    /\ tasks = [p \in Producers |-> IdleTask]

(***************************************************************************)
(* IPC_getHandlerIdx: linear scan of the first IPC_u8HandlerCnt entries,   *)
(* the first match wins, -1 when there is none.                            *)
(***************************************************************************)
HandlerMatches(arHandler, cnt, taskID) ==
    { i \in HandlerIdx : i < cnt /\ arHandler[i].recvId = taskID }

IPC_getHandlerIdx(arHandler, cnt, taskID) ==
    IF cnt > 0 /\ HandlerMatches(arHandler, cnt, taskID) # {}
    THEN CHOOSE i \in HandlerMatches(arHandler, cnt, taskID) :
            \A j \in HandlerMatches(arHandler, cnt, taskID) : i <= j
    ELSE -1

(***************************************************************************)
(* IPC_createHandler                                                       *)
(***************************************************************************)
\* CreateStatus without the check for an existing handler
CreateStatus_NoExistsCheck(arHandler, cnt, aTaskID, aHandle) ==
    IF aHandle = NULL THEN E_IPC_ERR_CREATE_FAIL
    ELSE IF cnt = IPC_HANDLER_CNT_MAX THEN E_IPC_ERR_CREATE_FAIL
    ELSE E_IPC_SUCCESS

\* CreateStatus without the check of the handle against NULL
CreateStatus_NoNullCheck(arHandler, cnt, aTaskID, aHandle) ==
    IF cnt = IPC_HANDLER_CNT_MAX THEN E_IPC_ERR_CREATE_FAIL
    ELSE IF IPC_getHandlerIdx(arHandler, cnt, aTaskID) # -1 THEN E_IPC_ERR_EXISTS
    ELSE E_IPC_SUCCESS

\* the status the chain of checks at the head of IPC_createHandler yields
CreateStatus(arHandler, cnt, aTaskID, aHandle) ==
    IF aHandle = NULL THEN E_IPC_ERR_CREATE_FAIL
    ELSE IF cnt = IPC_HANDLER_CNT_MAX THEN E_IPC_ERR_CREATE_FAIL
    ELSE IF IPC_getHandlerIdx(arHandler, cnt, aTaskID) # -1 THEN E_IPC_ERR_EXISTS
    ELSE E_IPC_SUCCESS

\* InitHandler without the store to recvId
InitHandler_NoRecvId(h, aTaskID, aHandle) ==
    [h EXCEPT !.handle = aHandle,
              !.queue.queueSize = 0, !.queue.queueTail = 0, !.queue.queueHead = 0]

\* the initialization of the handler at index cnt (the message slots are not touched)
InitHandler(h, aTaskID, aHandle) ==
    [h EXCEPT !.recvId = aTaskID, !.handle = aHandle,
              !.queue.queueSize = 0, !.queue.queueTail = 0, !.queue.queueHead = 0]

IPC_createHandler(aTaskID, aHandle) ==
    LET st == CreateStatus(IPC_arHandler, IPC_u8HandlerCnt, aTaskID, aHandle) IN
    /\ IF st = E_IPC_SUCCESS
       THEN /\ IPC_arHandler' = [IPC_arHandler EXCEPT ![IPC_u8HandlerCnt] = InitHandler(@, aTaskID, aHandle)]
            /\ IPC_u8HandlerCnt' = ToU8(IPC_u8HandlerCnt + 1)
       ELSE UNCHANGED <<IPC_arHandler, IPC_u8HandlerCnt>>
    /\ last' = Call("create", aTaskID, aHandle, NoMsg, 0, st,
                     IF st = E_IPC_SUCCESS THEN IPC_u8HandlerCnt ELSE -1, NoHandle, "none")
    /\ UNCHANGED <<apBuf, strayWrites, accepted, delivered, tasks>>

CreateOf(args) == \E a \in args : IPC_createHandler(a[1], a[2])

Create == CreateOf(AppCreates)

(***************************************************************************)
(* IPC_send                                                                *)
(***************************************************************************)
\* TooLarge with > in place of >=
TooLarge_Inclusive(aDataSize) == aDataSize > IPC_MAX_DATA_LENGTH

\* aDataSize >= IPC_MAX_DATA_LENGTH: data cannot be sent because it's too large
TooLarge(aDataSize) == aDataSize >= IPC_MAX_DATA_LENGTH

\* uint8_t handlerIdx = IPC_getHandlerIdx( aRecv ): the int result narrowed to 8 bits
SendHandlerIdx(arHandler, cnt, aRecv) == ToU8(IPC_getHandlerIdx(arHandler, cnt, aRecv))

\* if (handlerIdx == -1): the uint8_t is promoted to int before the comparison
SendNoHandler(handlerIdx) == handlerIdx = -1

\* WriteSlot without the copy loop
WriteSlot_NoCopy(m, aType, apData, aDataSize) ==
    [eIPC_MsgType |-> aType, u8Data |-> m.u8Data, u32DataLen |-> ToU32(aDataSize)]

\* the three stores into msgQueue[idx]: type, length, the first aDataSize bytes
WriteSlot(m, aType, apData, aDataSize) ==
    [eIPC_MsgType |-> aType,
     u8Data       |-> [i \in DataIdx |-> IF i < aDataSize THEN apData[i] ELSE m.u8Data[i]],
     u32DataLen   |-> ToU32(aDataSize)]

\* the advance of queueTail / queueHead without modulo
Advance(p) == IF p = IPC_MSG_QUEUE_LENGTH - 1 THEN 0 ELSE ToU8(p + 1)

\* copy into the slot at queueTail, queueSize++, advance queueTail
Enqueue(q, aType, apData, aDataSize) ==
    [q EXCEPT !.msgQueue[q.queueTail] = WriteSlot(@, aType, apData, aDataSize),
              !.queueSize = ToU8(q.queueSize + 1),
              !.queueTail = Advance(q.queueTail)]

\* NotifyStatus with the result of xTaskNotifyGive ignored
NotifyStatus_Ignored(ok) == E_IPC_SUCCESS

\* the status after xTaskNotifyGive returned pdPASS (ok) or not
NotifyStatus(ok) == IF ok THEN E_IPC_SUCCESS ELSE E_IPC_ERR_SEND_FAIL

TotalSent == LET RECURSIVE Sum(_)
                 Sum(S) == IF S = {} THEN 0
                           ELSE LET h == CHOOSE x \in S : TRUE IN Len(accepted[h]) + Sum(S \ {h})
             IN Sum(HandlerIdx)

\* xTaskNotifyGive( handle ) and the status IPC_send returns after it; the
\* primitive is FreeRTOS's, its result (pdPASS or not) is the environment's
GiveAndReturn(aRecv, msg, aDataSize, handlerIdx, handle) ==
    \E ok \in BOOLEAN :
        last' = Call("send", aRecv, NULL, msg, aDataSize, NotifyStatus(ok), handlerIdx, handle,
                     IF ok THEN "pdPASS" ELSE "pdFAIL")

IPC_send(aRecv, aType, apData, aDataSize) ==
    LET handlerIdx == SendHandlerIdx(IPC_arHandler, IPC_u8HandlerCnt, aRecv)
        msg        == [aType |-> aType, apData |-> apData]
    IN
    /\ UNCHANGED <<IPC_u8HandlerCnt, apBuf, delivered, tasks>>
    /\ IF TooLarge(aDataSize)
       THEN /\ last' = Call("send", aRecv, NULL, msg, aDataSize, E_IPC_ERR_SEND_FAIL, -1, NoHandle, "none")
            /\ UNCHANGED <<IPC_arHandler, strayWrites, accepted>>
       ELSE IF SendNoHandler(handlerIdx)
       THEN /\ last' = Call("send", aRecv, NULL, msg, aDataSize, E_IPC_ERR_NO_HANDLER, -1, NoHandle, "none")
            /\ UNCHANGED <<IPC_arHandler, strayWrites, accepted>>
       ELSE IF handlerIdx \in HandlerIdx
       THEN /\ TotalSent < MaxSent
            /\ IPC_arHandler' = [IPC_arHandler EXCEPT ![handlerIdx].queue = Enqueue(@, aType, apData, aDataSize)]
            /\ accepted' = [accepted EXCEPT ![handlerIdx] =
                               Append(@, IPC_arHandler'[handlerIdx].queue.msgQueue[IPC_arHandler[handlerIdx].queue.queueTail])]
            /\ GiveAndReturn(aRecv, msg, aDataSize, handlerIdx, IPC_arHandler[handlerIdx].handle)
            /\ UNCHANGED strayWrites
       ELSE \* IPC_arHandler[handlerIdx] lies behind the end of the table: the
            \* stores go to memory that is not the table's, the handle passed to
            \* xTaskNotifyGive is whatever that memory holds
            /\ strayWrites' = TRUE
            /\ \E garbage \in Handles \cup {NULL} : GiveAndReturn(aRecv, msg, aDataSize, handlerIdx, garbage)
            /\ UNCHANGED <<IPC_arHandler, accepted>>

SendOf(ids, msgs, sizes) ==
    \E aRecv \in ids, m \in msgs, aDataSize \in sizes : IPC_send(aRecv, m.aType, m.apData, aDataSize)

Send == SendOf(AppIDs, Messages, DataSizes)

(***************************************************************************)
(* IPC_receive                                                             *)
(***************************************************************************)
\* NothingToReceive with a comparison an unsigned size never satisfies
NothingToReceive_Never(q) == q.queueSize < 0

\* queue->queueSize == 0: nothing to be received
NothingToReceive(q) == q.queueSize = 0

\* Dequeue without the advance of queueHead
Dequeue_KeepHead(q) == [q EXCEPT !.queueSize = ToU8(q.queueSize - 1)]

\* queueSize--, advance queueHead (after the memcpy of the slot at queueHead)
Dequeue(q) == [q EXCEPT !.queueSize = ToU8(q.queueSize - 1), !.queueHead = Advance(q.queueHead)]

\* ReceiveStatus that never reports more data
ReceiveStatus_NeverMore(q) == E_IPC_SUCCESS

\* the status after the dequeue
ReceiveStatus(q) == IF q.queueSize > 0 THEN E_IPC_RECV_MORE ELSE E_IPC_SUCCESS

IPC_receive(aRecv) ==
    LET handlerIdx == IPC_getHandlerIdx(IPC_arHandler, IPC_u8HandlerCnt, aRecv) IN
    /\ UNCHANGED <<IPC_u8HandlerCnt, strayWrites, accepted, tasks>>
    /\ IF handlerIdx = -1
       THEN /\ last' = Call("receive", aRecv, NULL, NoMsg, 0, E_IPC_ERR_NO_HANDLER, -1, NoHandle, "none")
            /\ UNCHANGED <<IPC_arHandler, apBuf, delivered>>
       ELSE IF NothingToReceive(IPC_arHandler[handlerIdx].queue)
       THEN /\ last' = Call("receive", aRecv, NULL, NoMsg, 0, E_IPC_ERR_RECV_FAIL, handlerIdx, NoHandle, "none")
            /\ UNCHANGED <<IPC_arHandler, apBuf, delivered>>
       ELSE LET q == IPC_arHandler[handlerIdx].queue IN
            /\ apBuf' = q.msgQueue[q.queueHead]
            /\ IPC_arHandler' = [IPC_arHandler EXCEPT ![handlerIdx].queue = Dequeue(@)]
            /\ delivered' = [delivered EXCEPT ![handlerIdx] = Append(@, q.msgQueue[q.queueHead])]
            /\ last' = Call("receive", aRecv, NULL, NoMsg, 0, ReceiveStatus(Dequeue(q)), handlerIdx, NoHandle, "none")

ReceiveOf(ids) == \E aRecv \in ids : IPC_receive(aRecv)

Receive == ReceiveOf(AppIDs)

Next == Create \/ Send \/ Receive

Spec == Init /\ [][Next]_vars

(***************************************************************************)
(* SpecReg: the same calls with every task ID and every handle (NULL too)  *)
(* for IPC_createHandler, and one kind of message.                         *)
(***************************************************************************)
CreateReg == CreateOf(TaskIDs \X (Handles \cup {NULL}))

SendReg == SendOf({1}, {[aType |-> 1, apData |-> [i \in DataIdx |-> 2]]}, {IPC_MAX_DATA_LENGTH - 1})

ReceiveReg == ReceiveOf({1})

NextReg == CreateReg \/ SendReg \/ ReceiveReg

SpecReg == Init /\ [][NextReg]_vars

(***************************************************************************)
(* SpecNeg: the calls of Spec with the values of the signed int aDataSize  *)
(* that are not sizes: negative ones, next to the largest size, sent to    *)
(* E_IPC_TASK_ID_1.                                                        *)
(***************************************************************************)
SizesNeg == {-IPC_MAX_DATA_LENGTH, -1, IPC_MAX_DATA_LENGTH - 1}

SendNeg == SendOf({1}, {[aType |-> 1, apData |-> [i \in DataIdx |-> 2]]}, SizesNeg)

NextNeg == Create \/ SendNeg \/ Receive

SpecNeg == Init /\ [][NextNeg]_vars

(***************************************************************************)
(* SpecRT: the calls of Spec with a sender that keeps its payload in a     *)
(* buffer of its own (tasks[Sender].apData), passes that buffer to         *)
(* IPC_send with every type and every size from 0 to IPC_MAX_DATA_LENGTH   *)
(* - 1, and overwrites the buffer between the calls.  MaxRounds messages   *)
(* are stored in one behaviour.                                            *)
(***************************************************************************)
Sender == "A"

Owner == "B"

\* what the sender writes into its buffer
Payloads == { m.apData : m \in Messages }

SizesRT == 0 .. (IPC_MAX_DATA_LENGTH - 1)

\* the sender fills its buffer
RT_Fill ==
    /\ \E d \in Payloads : d # tasks[Sender].apData /\ tasks' = [tasks EXCEPT ![Sender].apData = d]
    /\ UNCHANGED <<IPC_arHandler, IPC_u8HandlerCnt, apBuf, strayWrites, accepted, delivered, last>>

\* IPC_send( E_IPC_TASK_ID_1, aType, buffer, aDataSize )
RT_Send ==
    /\ TotalSent < MaxRounds
    /\ \E aType \in MsgTypes, aDataSize \in SizesRT : IPC_send(1, aType, tasks[Sender].apData, aDataSize)

NextRT == CreateOf({<<1, 1>>}) \/ RT_Fill \/ RT_Send \/ ReceiveOf({1})

SpecRT == Init /\ [][NextRT]_vars

(***************************************************************************)
(* SpecMP: two tasks call IPC_send for the same receiver, and the          *)
(* scheduler may switch between them after every read or write of shared   *)
(* memory.  IPC_send takes no lock and masks no interrupt, so every        *)
(* interleaving of the steps below is a possible run.  The handler of the  *)
(* receiver was created before (task 1, handle 1); its queue is empty,     *)
(* with queueHead = queueTail at any slot.                                 *)
(***************************************************************************)
MPRecv == 1

SizesMP == {IPC_MAX_DATA_LENGTH - 1}

InitMP ==
    /\ \E t \in SlotIdx :
          IPC_arHandler = [h \in HandlerIdx |->
                             IF h = 0
                             THEN [InitHandler(ZeroHandler, MPRecv, 1) EXCEPT !.queue.queueTail = t, !.queue.queueHead = t]
                             ELSE ZeroHandler]
    /\ IPC_u8HandlerCnt = 1
    /\ apBuf = ZeroMsg
    /\ strayWrites = FALSE
    /\ accepted = [h \in HandlerIdx |-> <<>>]
    /\ delivered = [h \in HandlerIdx |-> <<>>]
    /\ last = NoCall
    /\ tasks = [p \in Producers |-> IdleTask]

MPQueue(p) == IPC_arHandler[tasks[p].handlerIdx].queue

MPGoto(p, pc) == tasks' = [tasks EXCEPT ![p].pc = pc]

MPUnchanged == UNCHANGED <<IPC_u8HandlerCnt, apBuf, strayWrites, accepted, delivered, last>>

\* the call, the size check and the lookup of the handler
MP_Call(p) ==
    /\ tasks[p].pc = "idle"
    /\ \E m \in Messages, aDataSize \in SizesMP :
         LET handlerIdx == SendHandlerIdx(IPC_arHandler, IPC_u8HandlerCnt, MPRecv) IN
         tasks' = [tasks EXCEPT ![p] =
            IF TooLarge(aDataSize)
            THEN [@ EXCEPT !.pc = "done", !.ret = E_IPC_ERR_SEND_FAIL]
            ELSE IF SendNoHandler(handlerIdx)
            THEN [@ EXCEPT !.pc = "done", !.ret = E_IPC_ERR_NO_HANDLER]
            ELSE [@ EXCEPT !.pc = "readTail", !.aType = m.aType, !.apData = m.apData,
                           !.aDataSize = aDataSize, !.handlerIdx = handlerIdx]]
    /\ UNCHANGED IPC_arHandler
    /\ MPUnchanged

\* uint8_t idx = queue->queueTail
MP_ReadTail(p) ==
    /\ tasks[p].pc = "readTail"
    /\ tasks' = [tasks EXCEPT ![p].pc = "writeType", ![p].idx = MPQueue(p).queueTail]
    /\ UNCHANGED IPC_arHandler
    /\ MPUnchanged

\* queue->msgQueue[idx].eIPC_MsgType = aType
MP_WriteType(p) ==
    /\ tasks[p].pc = "writeType"
    /\ IPC_arHandler' = [IPC_arHandler EXCEPT
            ![tasks[p].handlerIdx].queue.msgQueue[tasks[p].idx].eIPC_MsgType = tasks[p].aType]
    /\ MPGoto(p, "writeLen")
    /\ MPUnchanged

\* queue->msgQueue[idx].u32DataLen = aDataSize; int i = 0
MP_WriteLen(p) ==
    /\ tasks[p].pc = "writeLen"
    /\ IPC_arHandler' = [IPC_arHandler EXCEPT
            ![tasks[p].handlerIdx].queue.msgQueue[tasks[p].idx].u32DataLen = ToU32(tasks[p].aDataSize)]
    /\ tasks' = [tasks EXCEPT ![p].pc = "copy", ![p].i = 0]
    /\ MPUnchanged

\* for (i < aDataSize): queue->msgQueue[idx].u8Data[i] = apData[i]; i++
MP_Copy(p) ==
    /\ tasks[p].pc = "copy"
    /\ IF tasks[p].i < tasks[p].aDataSize
       THEN /\ IPC_arHandler' = [IPC_arHandler EXCEPT
                    ![tasks[p].handlerIdx].queue.msgQueue[tasks[p].idx].u8Data[tasks[p].i] = tasks[p].apData[tasks[p].i]]
            /\ tasks' = [tasks EXCEPT ![p].i = @ + 1]
       ELSE /\ UNCHANGED IPC_arHandler
            /\ MPGoto(p, "readSize")
    /\ MPUnchanged

\* queue->queueSize++: the load
MP_ReadSize(p) ==
    /\ tasks[p].pc = "readSize"
    /\ tasks' = [tasks EXCEPT ![p].pc = "writeSize", ![p].tmp = MPQueue(p).queueSize]
    /\ UNCHANGED IPC_arHandler
    /\ MPUnchanged

\* queue->queueSize++: the store
MP_WriteSize(p) ==
    /\ tasks[p].pc = "writeSize"
    /\ IPC_arHandler' = [IPC_arHandler EXCEPT ![tasks[p].handlerIdx].queue.queueSize = ToU8(tasks[p].tmp + 1)]
    /\ MPGoto(p, "testTail")
    /\ MPUnchanged

\* if (queue->queueTail == IPC_MSG_QUEUE_LENGTH - 1)
MP_TestTail(p) ==
    /\ tasks[p].pc = "testTail"
    /\ MPGoto(p, IF MPQueue(p).queueTail = IPC_MSG_QUEUE_LENGTH - 1 THEN "zeroTail" ELSE "readTailInc")
    /\ UNCHANGED IPC_arHandler
    /\ MPUnchanged

\* queue->queueTail = 0
MP_ZeroTail(p) ==
    /\ tasks[p].pc = "zeroTail"
    /\ IPC_arHandler' = [IPC_arHandler EXCEPT ![tasks[p].handlerIdx].queue.queueTail = 0]
    /\ MPGoto(p, "notify")
    /\ MPUnchanged

\* queue->queueTail++: the load
MP_ReadTailInc(p) ==
    /\ tasks[p].pc = "readTailInc"
    /\ tasks' = [tasks EXCEPT ![p].pc = "writeTailInc", ![p].tmp = MPQueue(p).queueTail]
    /\ UNCHANGED IPC_arHandler
    /\ MPUnchanged

\* queue->queueTail++: the store
MP_WriteTailInc(p) ==
    /\ tasks[p].pc = "writeTailInc"
    /\ IPC_arHandler' = [IPC_arHandler EXCEPT ![tasks[p].handlerIdx].queue.queueTail = ToU8(tasks[p].tmp + 1)]
    /\ MPGoto(p, "notify")
    /\ MPUnchanged

\* xTaskNotifyGive( IPC_arHandler[handlerIdx].handle ) and the return
MP_Notify(p) ==
    /\ tasks[p].pc = "notify"
    /\ \E ok \in BOOLEAN : tasks' = [tasks EXCEPT ![p].pc = "done", ![p].ret = NotifyStatus(ok)]
    /\ UNCHANGED IPC_arHandler
    /\ MPUnchanged

NextMP ==
    \E p \in Producers :
        \/ MP_Call(p)
        \/ MP_ReadTail(p)
        \/ MP_WriteType(p)
        \/ MP_WriteLen(p)
        \/ MP_Copy(p)
        \/ MP_ReadSize(p)
        \/ MP_WriteSize(p)
        \/ MP_TestTail(p)
        \/ MP_ZeroTail(p)
        \/ MP_ReadTailInc(p)
        \/ MP_WriteTailInc(p)
        \/ MP_Notify(p)

SpecMP == InitMP /\ [][NextMP]_vars

(***************************************************************************)
(* SpecSR: one task (Sender) calls IPC_send for the receiver MPRecv while  *)
(* the task that owns the inbox (Owner) calls IPC_receive, and the         *)
(* scheduler may switch between the two after every read or write of       *)
(* shared memory (both demo tasks run at tskIDLE_PRIORITY).  The sender's  *)
(* steps are those of SpecMP.  The run starts after the handler was        *)
(* created and t messages were sent and received, one after the other.     *)
(* The sender does not call while the inbox holds IPC_MSG_QUEUE_LENGTH     *)
(* messages it sent and the owner has not yet received.                    *)
(***************************************************************************)
\* the owner task: its position, the locals of IPC_receive, eventsToProcess of
\* demo_task1 and the notification value xTaskNotifyGive increments
IdleOwner == [pc |-> "idle", handlerIdx |-> 0, idx |-> 0, i |-> 0, tmp |-> 0, ret |-> E_IPC_SUCCESS,
              eventsToProcess |-> 0, ulNotifiedValue |-> 0]

\* the message earlier calls sent and received, as it lies in a slot
OldMsg == WriteSlot(ZeroMsg, 0, [i \in DataIdx |-> 1], IPC_MAX_DATA_LENGTH - 1)

\* the handler of MPRecv after IPC_createHandler and t rounds of IPC_send and IPC_receive
RECURSIVE Ran(_)
Ran(t) ==
    IF t = 0 THEN InitHandler(ZeroHandler, MPRecv, 1)
    ELSE [Ran(t - 1) EXCEPT !.queue = Dequeue(Enqueue(@, 0, [i \in DataIdx |-> 1], IPC_MAX_DATA_LENGTH - 1))]

InitSR ==
    /\ \E t \in SlotIdx :
          /\ IPC_arHandler = [h \in HandlerIdx |-> IF h = 0 THEN Ran(t) ELSE ZeroHandler]
          /\ accepted = [h \in HandlerIdx |-> IF h = 0 THEN [k \in 1 .. t |-> OldMsg] ELSE <<>>]
          /\ delivered = [h \in HandlerIdx |-> IF h = 0 THEN [k \in 1 .. t |-> OldMsg] ELSE <<>>]
          /\ apBuf = IF t = 0 THEN ZeroMsg ELSE OldMsg
    /\ IPC_u8HandlerCnt = 1
    /\ strayWrites = FALSE
    /\ last = NoCall
    /\ tasks = [p \in Producers |-> IF p = Owner THEN IdleOwner ELSE IdleTask]

\* the messages the sender's calls of this run may store, as they lie in a slot
SentMsgs == { WriteSlot(ZeroMsg, m.aType, m.apData, aDataSize) : m \in Messages, aDataSize \in SizesMP }

\* the sender's call, the size check and the lookup of the handler
SR_Call(p) ==
    /\ tasks[p].pc \in {"idle", "done"}
    /\ Len(accepted[0]) < MaxSent
    /\ Len(accepted[0]) - Len(delivered[0]) < IPC_MSG_QUEUE_LENGTH
    /\ \E m \in Messages, aDataSize \in SizesMP :
         LET handlerIdx == SendHandlerIdx(IPC_arHandler, IPC_u8HandlerCnt, MPRecv) IN
         tasks' = [tasks EXCEPT ![p] =
            IF TooLarge(aDataSize)
            THEN [@ EXCEPT !.pc = "done", !.ret = E_IPC_ERR_SEND_FAIL]
            ELSE IF SendNoHandler(handlerIdx)
            THEN [@ EXCEPT !.pc = "done", !.ret = E_IPC_ERR_NO_HANDLER]
            ELSE [@ EXCEPT !.pc = "readTail", !.aType = m.aType, !.apData = m.apData,
                           !.aDataSize = aDataSize, !.handlerIdx = handlerIdx]]
    /\ UNCHANGED IPC_arHandler
    /\ MPUnchanged

\* xTaskNotifyGive( IPC_arHandler[handlerIdx].handle ), which increments the
\* owner's notification value and returns pdPASS, and the return
SR_Notify(p) ==
    /\ tasks[p].pc = "notify"
    /\ tasks' = [tasks EXCEPT ![p].pc = "done", ![p].ret = NotifyStatus(TRUE),
                              ![Owner].ulNotifiedValue = @ + 1]
    /\ accepted' = [accepted EXCEPT ![tasks[p].handlerIdx] =
                       Append(@, WriteSlot(ZeroMsg, tasks[p].aType, tasks[p].apData, tasks[p].aDataSize))]
    /\ UNCHANGED <<IPC_arHandler, IPC_u8HandlerCnt, apBuf, strayWrites, delivered, last>>

\* IPC_receive( MPRecv, &msgBuff ): the call and the lookup of the handler
RX_Call(p, from) ==
    /\ tasks[p].pc = from
    /\ LET handlerIdx == IPC_getHandlerIdx(IPC_arHandler, IPC_u8HandlerCnt, MPRecv) IN
       tasks' = [tasks EXCEPT ![p] =
          IF handlerIdx = -1
          THEN [@ EXCEPT !.pc = "rxReturn", !.ret = E_IPC_ERR_NO_HANDLER]
          ELSE [@ EXCEPT !.pc = "rxTestSize", !.handlerIdx = handlerIdx]]
    /\ UNCHANGED IPC_arHandler
    /\ MPUnchanged

\* if (queue->queueSize == 0) return E_IPC_ERR_RECV_FAIL
RX_TestSize(p) ==
    /\ tasks[p].pc = "rxTestSize"
    /\ tasks' = [tasks EXCEPT ![p] =
          IF NothingToReceive(MPQueue(p))
          THEN [@ EXCEPT !.pc = "rxReturn", !.ret = E_IPC_ERR_RECV_FAIL]
          ELSE [@ EXCEPT !.pc = "rxReadHead"]]
    /\ UNCHANGED IPC_arHandler
    /\ MPUnchanged

\* &(queue->msgQueue[queue->queueHead]), the source of the memcpy
RX_ReadHead(p) ==
    /\ tasks[p].pc = "rxReadHead"
    /\ tasks' = [tasks EXCEPT ![p].pc = "rxCopyType", ![p].idx = MPQueue(p).queueHead]
    /\ UNCHANGED IPC_arHandler
    /\ MPUnchanged

\* memcpy: the bytes of eIPC_MsgType
RX_CopyType(p) ==
    /\ tasks[p].pc = "rxCopyType"
    /\ apBuf' = [apBuf EXCEPT !.eIPC_MsgType = MPQueue(p).msgQueue[tasks[p].idx].eIPC_MsgType]
    /\ tasks' = [tasks EXCEPT ![p].pc = "rxCopyData", ![p].i = 0]
    /\ UNCHANGED <<IPC_arHandler, IPC_u8HandlerCnt, strayWrites, accepted, delivered, last>>

\* memcpy: the bytes of u8Data, one after the other
RX_CopyData(p) ==
    /\ tasks[p].pc = "rxCopyData"
    /\ IF tasks[p].i < IPC_MAX_DATA_LENGTH
       THEN /\ apBuf' = [apBuf EXCEPT !.u8Data[tasks[p].i] = MPQueue(p).msgQueue[tasks[p].idx].u8Data[tasks[p].i]]
            /\ tasks' = [tasks EXCEPT ![p].i = @ + 1]
       ELSE /\ UNCHANGED apBuf
            /\ MPGoto(p, "rxCopyLen")
    /\ UNCHANGED <<IPC_arHandler, IPC_u8HandlerCnt, strayWrites, accepted, delivered, last>>

\* memcpy: the bytes of u32DataLen
RX_CopyLen(p) ==
    /\ tasks[p].pc = "rxCopyLen"
    /\ apBuf' = [apBuf EXCEPT !.u32DataLen = MPQueue(p).msgQueue[tasks[p].idx].u32DataLen]
    /\ MPGoto(p, "rxReadSize")
    /\ UNCHANGED <<IPC_arHandler, IPC_u8HandlerCnt, strayWrites, accepted, delivered, last>>

\* queue->queueSize--: the load
RX_ReadSize(p) ==
    /\ tasks[p].pc = "rxReadSize"
    /\ tasks' = [tasks EXCEPT ![p].pc = "rxWriteSize", ![p].tmp = MPQueue(p).queueSize]
    /\ UNCHANGED IPC_arHandler
    /\ MPUnchanged

\* queue->queueSize--: the store
RX_WriteSize(p) ==
    /\ tasks[p].pc = "rxWriteSize"
    /\ IPC_arHandler' = [IPC_arHandler EXCEPT ![tasks[p].handlerIdx].queue.queueSize = ToU8(tasks[p].tmp - 1)]
    /\ MPGoto(p, "rxTestHead")
    /\ MPUnchanged

\* if (queue->queueHead == IPC_MSG_QUEUE_LENGTH - 1)
RX_TestHead(p) ==
    /\ tasks[p].pc = "rxTestHead"
    /\ MPGoto(p, IF MPQueue(p).queueHead = IPC_MSG_QUEUE_LENGTH - 1 THEN "rxZeroHead" ELSE "rxReadHeadInc")
    /\ UNCHANGED IPC_arHandler
    /\ MPUnchanged

\* queue->queueHead = 0
RX_ZeroHead(p) ==
    /\ tasks[p].pc = "rxZeroHead"
    /\ IPC_arHandler' = [IPC_arHandler EXCEPT ![tasks[p].handlerIdx].queue.queueHead = 0]
    /\ MPGoto(p, "rxTestMore")
    /\ MPUnchanged

\* queue->queueHead++: the load
RX_ReadHeadInc(p) ==
    /\ tasks[p].pc = "rxReadHeadInc"
    /\ tasks' = [tasks EXCEPT ![p].pc = "rxWriteHeadInc", ![p].tmp = MPQueue(p).queueHead]
    /\ UNCHANGED IPC_arHandler
    /\ MPUnchanged

\* queue->queueHead++: the store
RX_WriteHeadInc(p) ==
    /\ tasks[p].pc = "rxWriteHeadInc"
    /\ IPC_arHandler' = [IPC_arHandler EXCEPT ![tasks[p].handlerIdx].queue.queueHead = ToU8(tasks[p].tmp + 1)]
    /\ MPGoto(p, "rxTestMore")
    /\ MPUnchanged

\* if (queue->queueSize > 0) return E_IPC_RECV_MORE; else return E_IPC_SUCCESS
RX_TestMore(p) ==
    /\ tasks[p].pc = "rxTestMore"
    /\ tasks' = [tasks EXCEPT ![p].pc = "rxReturn", ![p].ret = ReceiveStatus(MPQueue(p))]
    /\ UNCHANGED IPC_arHandler
    /\ MPUnchanged

\* the return to the caller, which has a message in its buffer if the status
\* is E_IPC_SUCCESS or E_IPC_RECV_MORE
RX_Return(p, to) ==
    /\ tasks[p].pc = "rxReturn"
    /\ MPGoto(p, to)
    /\ delivered' = IF tasks[p].ret \in {E_IPC_SUCCESS, E_IPC_RECV_MORE}
                    THEN [delivered EXCEPT ![tasks[p].handlerIdx] = Append(@, apBuf)]
                    ELSE delivered
    /\ UNCHANGED <<IPC_arHandler, IPC_u8HandlerCnt, apBuf, strayWrites, accepted, last>>

\* the steps of the sender's IPC_send after the call
SendBody(p) ==
    \/ MP_ReadTail(p)
    \/ MP_WriteType(p)
    \/ MP_WriteLen(p)
    \/ MP_Copy(p)
    \/ MP_ReadSize(p)
    \/ MP_WriteSize(p)
    \/ MP_TestTail(p)
    \/ MP_ZeroTail(p)
    \/ MP_ReadTailInc(p)
    \/ MP_WriteTailInc(p)
    \/ SR_Notify(p)

\* the steps of the sender's IPC_send
SendSteps(p) == SR_Call(p) \/ SendBody(p)

\* the steps of the owner's IPC_receive between the call and the return
ReceiveSteps(p) ==
    \/ RX_TestSize(p)
    \/ RX_ReadHead(p)
    \/ RX_CopyType(p)
    \/ RX_CopyData(p)
    \/ RX_CopyLen(p)
    \/ RX_ReadSize(p)
    \/ RX_WriteSize(p)
    \/ RX_TestHead(p)
    \/ RX_ZeroHead(p)
    \/ RX_ReadHeadInc(p)
    \/ RX_WriteHeadInc(p)
    \/ RX_TestMore(p)

NextSR ==
    \/ SendSteps(Sender)
    \/ RX_Call(Owner, "idle")
    \/ ReceiveSteps(Owner)
    \/ RX_Return(Owner, "idle")

SpecSR == InitSR /\ [][NextSR]_vars

(***************************************************************************)
(* SpecLive: SpecSR with an owner that runs the loop of demo_task1         *)
(* (variant 2): it takes the notification value without clearing it, and   *)
(* calls IPC_receive as many times as the value said.  xTaskNotifyGive     *)
(* increments the value and returns pdPASS.  Both tasks are scheduled      *)
(* fairly: a task that can take a step is not suspended forever.  The      *)
(* sender is free not to call IPC_send again.                              *)
(***************************************************************************)
\* uint32_t eventsToProcess = ulTaskNotifyTake( pdFALSE, 1 ): the value before
\* the decrement, 0 after the timeout of one tick
DL_Take(p) ==
    /\ tasks[p].pc = "idle"
    /\ tasks' = [tasks EXCEPT ![p].pc = "while",
                              ![p].eventsToProcess = tasks[p].ulNotifiedValue,
                              ![p].ulNotifiedValue = IF @ > 0 THEN @ - 1 ELSE 0]
    /\ UNCHANGED IPC_arHandler
    /\ MPUnchanged

\* if (eventsToProcess != 0) while (eventsToProcess > 0)
DL_While(p) ==
    /\ tasks[p].pc = "while"
    /\ MPGoto(p, IF tasks[p].eventsToProcess > 0 THEN "call" ELSE "idle")
    /\ UNCHANGED IPC_arHandler
    /\ MPUnchanged

\* eventsToProcess--
DL_Dec(p) ==
    /\ tasks[p].pc = "dec"
    /\ tasks' = [tasks EXCEPT ![p].pc = "while", ![p].eventsToProcess = @ - 1]
    /\ UNCHANGED IPC_arHandler
    /\ MPUnchanged

\* the steps of demo_task1
OwnerLoop(p) ==
    \/ DL_Take(p)
    \/ DL_While(p)
    \/ RX_Call(p, "call")
    \/ ReceiveSteps(p)
    \/ RX_Return(p, "dec")
    \/ DL_Dec(p)

NextLive == SendSteps(Sender) \/ OwnerLoop(Owner)

SpecLive == InitSR /\ [][NextLive]_vars /\ WF_vars(SendBody(Sender)) /\ WF_vars(OwnerLoop(Owner))

(***************************************************************************)
(* The claims.  A step of Spec is one API call, and last' describes it:    *)
(* the unprimed variables are the state before the call, the primed ones   *)
(* the state after it.                                                     *)
(***************************************************************************)
\* the handler registered for a task ID (-1: none), and its queue
IdxOf(id) == IPC_getHandlerIdx(IPC_arHandler, IPC_u8HandlerCnt, id)

Registered(id) == IdxOf(id) # -1

\* q2 is q with one message of size len of a sender stored in the slot at
\* q's tail: type, length and the first len bytes are the sender's, the tail
\* has advanced by one modulo the queue length and the size has grown by one
StoredIn(q, q2, len) ==
    /\ \E m \in Messages :
          /\ q2.msgQueue[q.queueTail].eIPC_MsgType = m.aType
          /\ q2.msgQueue[q.queueTail].u32DataLen = [hi |-> 0, lo |-> len]
          /\ \A i \in DataIdx : i < len => q2.msgQueue[q.queueTail].u8Data[i] = m.apData[i]
    /\ \A s \in SlotIdx : s # q.queueTail => q2.msgQueue[s] = q.msgQueue[s]
    /\ q2.queueTail = (q.queueTail + 1) % IPC_MSG_QUEUE_LENGTH
    /\ q2.queueSize = q.queueSize + 1
    /\ q2.queueHead = q.queueHead

IsPrefix(s, t) == Len(s) <= Len(t) /\ \A k \in 1 .. Len(s) : s[k] = t[k]

\* C1: a send of an accepted size to a registered inbox is stored while the
\* inbox holds fewer than IPC_MSG_QUEUE_LENGTH messages; a send issued while it
\* holds IPC_MSG_QUEUE_LENGTH messages fails and leaves the queue (head, tail,
\* size and every stored message) as it was: enqueue never overwrites.
C1_CapacityBoundary ==
    [][ (last'.op = "send" /\ last'.len < IPC_MAX_DATA_LENGTH /\ Registered(last'.id)) =>
          LET q  == IPC_arHandler[IdxOf(last'.id)].queue
              q2 == IPC_arHandler'[IdxOf(last'.id)].queue
          IN  IF q.queueSize < IPC_MSG_QUEUE_LENGTH
              THEN StoredIn(q, q2, last'.len)
              ELSE q2 = q /\ last'.ret # E_IPC_SUCCESS ]_vars

\* C2: in every reachable state the size counter of every registered inbox is
\* the number of messages sent into it minus the number of messages received
\* from it, and lies in 0 .. IPC_MSG_QUEUE_LENGTH.
C2_CountAccounting ==
    \A h \in HandlerIdx : h < IPC_u8HandlerCnt =>
        /\ IPC_arHandler[h].queue.queueSize = Len(accepted[h]) - Len(delivered[h])
        /\ IPC_arHandler[h].queue.queueSize >= 0
        /\ IPC_arHandler[h].queue.queueSize <= IPC_MSG_QUEUE_LENGTH

\* C3: per inbox, the sequence of messages the receives returned is a prefix
\* of the sequence of messages the sends stored: no reordering, no loss, no
\* duplication.
C3_FifoPrefix ==
    \A h \in HandlerIdx : IsPrefix(delivered[h], accepted[h])

\* C4: a send of an accepted size to a task ID without handler returns
\* E_IPC_ERR_NO_HANDLER, writes nothing (neither into the table nor elsewhere)
\* and calls no xTaskNotifyGive.
C4_NoSuchInbox ==
    [][ (last'.op = "send" /\ last'.len < IPC_MAX_DATA_LENGTH /\ ~Registered(last'.id)) =>
          /\ last'.ret = E_IPC_ERR_NO_HANDLER
          /\ last'.notified = NoHandle
          /\ UNCHANGED <<IPC_arHandler, IPC_u8HandlerCnt, strayWrites>> ]_vars

\* the slot holds the message of task t untorn: type, length and the first
\* aDataSize bytes are those of t's call
Intact(slot, t) ==
    /\ slot.eIPC_MsgType = t.aType
    /\ slot.u32DataLen = [hi |-> 0, lo |-> t.aDataSize]
    /\ \A i \in DataIdx : i < t.aDataSize => slot.u8Data[i] = t.apData[i]

\* C5: when the two interleaved sends to the same inbox have both returned
\* E_IPC_SUCCESS, both messages are stored intact in two distinct slots and
\* the tail and the size of the queue have each advanced by exactly 2 (the
\* queue was empty, so the tail started at the head).
C5_MultiProducerSafe ==
    (\A p \in Producers : tasks[p].pc = "done" /\ tasks[p].ret = E_IPC_SUCCESS) =>
        LET q == IPC_arHandler[0].queue IN
        /\ \E sA \in SlotIdx, sB \in SlotIdx :
              /\ sA # sB
              /\ Intact(q.msgQueue[sA], tasks["A"])
              /\ Intact(q.msgQueue[sB], tasks["B"])
        /\ q.queueTail = (q.queueHead + 2) % IPC_MSG_QUEUE_LENGTH
        /\ q.queueSize = 2

\* a create call for a task ID that has a handler, with a handle that is not NULL
CreateOfRegistered == last'.op = "create" /\ last'.aHandle # NULL /\ Registered(last'.id)

\* C6 as claimed: every create call for a registered task ID with a non-null
\* handle returns E_IPC_ERR_EXISTS and leaves the table and the count unchanged.
C6_AlreadyExistsAlways ==
    [][ CreateOfRegistered =>
          /\ last'.ret = E_IPC_ERR_EXISTS
          /\ UNCHANGED <<IPC_arHandler, IPC_u8HandlerCnt>> ]_vars

\* C6 as amended: every create call for a registered task ID with a non-null
\* handle leaves the table and the count unchanged; it returns E_IPC_ERR_EXISTS
\* while the table has a free entry and E_IPC_ERR_CREATE_FAIL once the table
\* is full (the check for a full table comes first).
C6_AlreadyExistsUnlessFull ==
    [][ CreateOfRegistered =>
          /\ last'.ret = IF IPC_u8HandlerCnt < IPC_HANDLER_CNT_MAX
                         THEN E_IPC_ERR_EXISTS ELSE E_IPC_ERR_CREATE_FAIL
          /\ UNCHANGED <<IPC_arHandler, IPC_u8HandlerCnt>> ]_vars

\* a create call with another handle than the stored one was answered
\* E_IPC_ERR_EXISTS while the inbox held a message
C6_Witness ==
    /\ last.op = "create" /\ last.ret = E_IPC_ERR_EXISTS /\ Registered(last.id)
    /\ last.aHandle \notin {NULL, IPC_arHandler[IdxOf(last.id)].handle}
    /\ IPC_arHandler[IdxOf(last.id)].queue.queueSize > 0

C8_WakePerEnqueue ==
    [][ last'.op = "send" =>
          IF IPC_arHandler' # IPC_arHandler
          THEN Registered(last'.id) /\ last'.notified = IPC_arHandler[IdxOf(last'.id)].handle
          ELSE last'.notified = NoHandle ]_vars

\* what the receives return when the queue is drained by IPC_receive calls
RECURSIVE Drained(_)
Drained(q) ==
    IF NothingToReceive(q) THEN <<>> ELSE <<q.msgQueue[q.queueHead]>> \o Drained(Dequeue(q))

C10_EmptyReceiveIdempotent ==
    [][ ( /\ last'.op = "receive"
          /\ Registered(last'.id)
          /\ IPC_arHandler[IdxOf(last'.id)].queue.queueSize = 0 )
        => /\ last'.ret = E_IPC_ERR_RECV_FAIL
           /\ UNCHANGED <<IPC_arHandler, IPC_u8HandlerCnt, apBuf>> ]_vars

\* a receive on a drained inbox failed, after an earlier receive had filled
\* the caller's buffer
C10_Witness ==
    /\ last.op = "receive" /\ last.ret = E_IPC_ERR_RECV_FAIL /\ last.idx \in HandlerIdx
    /\ IPC_arHandler[last.idx].queue.queueSize = 0
    /\ apBuf # ZeroMsg
    /\ Len(delivered[last.idx]) > 0

\* C11: every receive on a registered inbox whose size is > 0 copies the slot
\* at the head into the caller's buffer, advances the head by one modulo
\* IPC_MSG_QUEUE_LENGTH, decrements the size by one, leaves tail and slots
\* alone, and returns E_IPC_RECV_MORE exactly when the size after the call is
\* > 0 (E_IPC_SUCCESS when the queue became empty).
C11_ReceiveDequeues ==
    [][ ( /\ last'.op = "receive"
          /\ Registered(last'.id)
          /\ IPC_arHandler[IdxOf(last'.id)].queue.queueSize > 0 )
        => LET q  == IPC_arHandler[IdxOf(last'.id)].queue
               q2 == IPC_arHandler'[IdxOf(last'.id)].queue
           IN  /\ apBuf' = q.msgQueue[q.queueHead]
               /\ q2.queueHead = (q.queueHead + 1) % IPC_MSG_QUEUE_LENGTH
               /\ q2.queueSize = q.queueSize - 1
               /\ q2.queueTail = q.queueTail
               /\ q2.msgQueue = q.msgQueue
               /\ (last'.ret = E_IPC_RECV_MORE) <=> (q2.queueSize > 0)
               /\ (last'.ret = E_IPC_SUCCESS) <=> (q2.queueSize = 0) ]_vars

\* a receive returned the message of type E_IPC_MSG_TYPE_2 from the last slot
\* of the array (the head wrapped to 0) and reported more data
C11_Witness ==
    /\ last.op = "receive" /\ last.ret = E_IPC_RECV_MORE /\ last.idx \in HandlerIdx
    /\ IPC_arHandler[last.idx].queue.queueHead = 0
    /\ IPC_arHandler[last.idx].queue.queueSize > 0
    /\ Len(delivered[last.idx]) = IPC_MSG_QUEUE_LENGTH
    /\ apBuf.eIPC_MsgType = 1
    /\ apBuf = IPC_arHandler[last.idx].queue.msgQueue[IPC_MSG_QUEUE_LENGTH - 1]

\* C12: a create call with a NULL handle and a create call issued while
\* IPC_u8HandlerCnt = IPC_HANDLER_CNT_MAX both return E_IPC_ERR_CREATE_FAIL (the
\* one status the source has for an invalid handle and for a full table) and
\* leave the table and the count unchanged; the count never exceeds
\* IPC_HANDLER_CNT_MAX and no call decreases it.
C12_CreateFailures ==
    /\ [](IPC_u8HandlerCnt \in 0 .. IPC_HANDLER_CNT_MAX)
    /\ [][ /\ IPC_u8HandlerCnt' >= IPC_u8HandlerCnt
           /\ ( /\ last'.op = "create"
                /\ (last'.aHandle = NULL \/ IPC_u8HandlerCnt = IPC_HANDLER_CNT_MAX) )
              => /\ last'.ret = E_IPC_ERR_CREATE_FAIL
                 /\ UNCHANGED <<IPC_arHandler, IPC_u8HandlerCnt>> ]_vars

\* with the table full, a create call for a task ID without handler, with a
\* handle that is not NULL, was refused
C12_Witness ==
    /\ last.op = "create" /\ last.ret = E_IPC_ERR_CREATE_FAIL
    /\ last.aHandle # NULL /\ ~Registered(last.id)
    /\ IPC_u8HandlerCnt = IPC_HANDLER_CNT_MAX

\* a create call with a NULL handle was refused while the table had a free entry
C12_WitnessNull ==
    /\ last.op = "create" /\ last.ret = E_IPC_ERR_CREATE_FAIL
    /\ last.aHandle = NULL /\ ~Registered(last.id)
    /\ IPC_u8HandlerCnt \in 1 .. (IPC_HANDLER_CNT_MAX - 1)

\* C13: two send calls to registered inboxes, one directly after the other,
\* that return the same status have either both stored their message in the
\* queue or both stored nothing: no status is returned by a send that stored
\* and by a send that did not.  (last is the earlier call, last' the later;
\* last.idx is the handler the earlier call stored into, -1 if it returned
\* before the lookup.)
C13_SendStatusDiscriminates ==
    [][ ( /\ last.op = "send" /\ Registered(last.id)
          /\ last'.op = "send" /\ Registered(last'.id)
          /\ last'.ret = last.ret )
        => ((last.idx \in HandlerIdx) <=> (IPC_arHandler' # IPC_arHandler)) ]_vars

\* the task IDs of the initialized handlers are pairwise distinct
DistinctIds(arHandler, cnt) ==
    \A i \in HandlerIdx, j \in HandlerIdx :
        (i < j /\ j < cnt) => arHandler[i].recvId # arHandler[j].recvId

\* C14: in every reachable state the handlers 0 .. IPC_u8HandlerCnt - 1 have
\* pairwise distinct task IDs; a create call that returns E_IPC_SUCCESS adds
\* exactly one handler (at index IPC_u8HandlerCnt, the others untouched) with
\* the call's task ID and handle and an empty queue (queueHead = queueTail =
\* queueSize = 0), and the lookups of IPC_send and IPC_receive for that task ID
\* resolve to it from then on.
C14_DistinctIds ==
    /\ [] DistinctIds(IPC_arHandler, IPC_u8HandlerCnt)
    /\ [][ (last'.op = "create" /\ last'.ret = E_IPC_SUCCESS) =>
             /\ IPC_u8HandlerCnt' = IPC_u8HandlerCnt + 1
             /\ \A h \in HandlerIdx : h # IPC_u8HandlerCnt => IPC_arHandler'[h] = IPC_arHandler[h]
             /\ IPC_arHandler'[IPC_u8HandlerCnt].recvId = last'.id
             /\ IPC_arHandler'[IPC_u8HandlerCnt].handle = last'.aHandle
             /\ IPC_arHandler'[IPC_u8HandlerCnt].queue.queueHead = 0
             /\ IPC_arHandler'[IPC_u8HandlerCnt].queue.queueTail = 0
             /\ IPC_arHandler'[IPC_u8HandlerCnt].queue.queueSize = 0
             /\ IPC_getHandlerIdx(IPC_arHandler', IPC_u8HandlerCnt', last'.id) = IPC_u8HandlerCnt
             /\ SendHandlerIdx(IPC_arHandler', IPC_u8HandlerCnt', last'.id) = IPC_u8HandlerCnt ]_vars

\* the last free entry of the table was initialized by a create call, after
\* the inbox of another task had received a message
C14_Witness ==
    /\ last.op = "create" /\ last.ret = E_IPC_SUCCESS
    /\ last.idx = IPC_HANDLER_CNT_MAX - 1
    /\ IPC_u8HandlerCnt = IPC_HANDLER_CNT_MAX
    /\ IPC_arHandler[last.idx].recvId = last.id
    /\ \E h \in HandlerIdx : h < last.idx /\ IPC_arHandler[h].queue.queueSize > 0

\* a uint32_t length that lies in 0 .. IPC_MAX_DATA_LENGTH
LengthInBounds(u32) == u32.hi = 0 /\ u32.lo <= IPC_MAX_DATA_LENGTH

\* C15: whatever the value of aDataSize, negative values included, the
\* length field of every slot of every queue and of the message IPC_receive
\* copied out lies in 0 .. IPC_MAX_DATA_LENGTH: a send is either refused or
\* stores a length within the bounds of the payload buffer.
C15_LengthInBounds ==
    /\ \A h \in HandlerIdx, s \in SlotIdx :
          LengthInBounds(IPC_arHandler[h].queue.msgQueue[s].u32DataLen)
    /\ LengthInBounds(apBuf.u32DataLen)

\* no call of the sender or the owner is in progress
Quiescent == tasks[Sender].pc \in {"idle", "done"} /\ tasks[Owner].pc = "idle"

\* C16: when the owner's IPC_receive and the sender's IPC_send on the same
\* inbox have run interleaved at the level of the single reads and writes of
\* queueSize, queueHead and queueTail and both have returned, no increment and
\* no decrement of queueSize is lost: queueSize is the number of sends that
\* returned minus the number of receives that returned a message, queueTail
\* has advanced by one per send and queueHead by one per receive (modulo
\* IPC_MSG_QUEUE_LENGTH).
C16_CountRaceFree ==
    Quiescent =>
        LET q == IPC_arHandler[0].queue IN
        /\ q.queueSize = Len(accepted[0]) - Len(delivered[0])
        /\ q.queueTail = Len(accepted[0]) % IPC_MSG_QUEUE_LENGTH
        /\ q.queueHead = Len(delivered[0]) % IPC_MSG_QUEUE_LENGTH

\* the messages a send has written completely: the one of the earlier rounds
\* and those the sender's calls of this run store
CompleteMsgs == {OldMsg} \cup SentMsgs

C17_RoundTrip ==
    [][ ( /\ last.op = "send" /\ last.ret = E_IPC_SUCCESS /\ last.idx \in HandlerIdx
          /\ IPC_arHandler[last.idx].queue.queueSize = 1
          /\ last'.op = "receive" /\ last'.id = last.id )
        => /\ last'.ret = E_IPC_SUCCESS
           /\ apBuf'.eIPC_MsgType = last.msg.aType
           /\ apBuf'.u32DataLen = [hi |-> 0, lo |-> last.len]
           /\ \A i \in DataIdx : i < last.len => apBuf'.u8Data[i] = last.msg.apData[i] ]_vars

\* the one message sent so far was received after the sender had overwritten
\* its buffer: the payload received is not what the buffer holds now
C17_Witness ==
    /\ last.op = "receive" /\ last.ret = E_IPC_SUCCESS /\ last.idx \in HandlerIdx
    /\ Len(accepted[last.idx]) = 1 /\ Len(delivered[last.idx]) = 1
    /\ apBuf.u32DataLen = [hi |-> 0, lo |-> IPC_MAX_DATA_LENGTH - 1]
    /\ apBuf.u8Data[0] \in {1, 2}
    /\ tasks[Sender].apData[0] \in {1, 2} \ {apBuf.u8Data[0]}

\* C18: with the sender and the owner's loop scheduled fairly, every message
\* a send has enqueued is eventually returned by a receive of the owner: when
\* k sends have returned, the owner eventually has received k messages.
C18_EventualDelivery ==
    \A k \in 1 .. MaxSent : (Len(accepted[0]) >= k) ~> (Len(delivered[0]) >= k)

=============================================================================
